---- MODULE Spec2Model ----
(***************************************************************************)
(* Weatherbit sensor platform (custom_components/weatherbit/sensor.py).    *)
(*                                                                         *)
(* Numbers: every numeric snapshot field is a fixed-point integer counting *)
(* hundredths of its unit (2540 is 25.40 mm, 1000 is 10.00 km).  Python's  *)
(* round(x, n) is modelled as round-half-to-even on the exact rational,    *)
(* int() as truncation toward zero.  Results are again in hundredths.      *)
(* Python values are tagged records: Num(n), Str(s), None, Raised(kind).   *)
(***************************************************************************)
EXTENDS Integers, Sequences, FiniteSets, TLC

VARIABLES
  fcst_data,     \* fcst_coordinator.data: the forecast entries, python index 0 first
  cur_data,      \* cur_coordinator.data: empty or the current-conditions record
  is_metric,     \* hass.config.units.is_metric
  entities,      \* the WeatherbitSensor instances handed to async_add_entities
  add_calls,     \* number of calls of async_add_entities
  setup_result,  \* "pending", or how async_setup_entry ended: "None", "True", "raised"
  last           \* the getter result on its way to the host

vars == <<fcst_data, cur_data, is_metric, entities, add_calls, setup_result, last>>

(* ------------------------------ bounds -------------------------------- *)
\* how many entries beyond the 8 the provider sends a forecast may carry
MaxExtra == 1
\* number of distinct current-conditions observations
MaxObs == 2
\* number of distinct forecast generations (one per refresh day)
MaxGen == 2

(* --------------------------- python values ---------------------------- *)
Num(n) == [tag |-> "num", num |-> n, str |-> ""]
Str(s) == [tag |-> "str", num |-> 0, str |-> s]
None == [tag |-> "none", num |-> 0, str |-> ""]
Raised(kind) == [tag |-> "raise", num |-> 0, str |-> kind]
\* an operator's result is an exception rather than a value
IsRaised(v) == "tag" \in DOMAIN v /\ v.tag = "raise"

\* str(v) as an f-string renders it
Format(v) ==
  CASE v.tag = "str" -> v.str
    [] v.tag = "none" -> "None"
    [] v.tag = "num" -> ToString(v.num)
    [] OTHER -> "<exception>"

(* ----------------------------- arithmetic ----------------------------- *)
\* round-half-to-even of n / d, d > 0 (\div floors, % is non-negative)
RoundDiv(n, d) ==
  LET q == n \div d
      r == n % d
  IN  IF 2 * r < d THEN q
      ELSE IF 2 * r > d THEN q + 1
      ELSE IF q % 2 = 0 THEN q ELSE q + 1

\* <<q, r>> with v * m = q * d + r and 0 <= r < d, for v, m >= 0, without
\* forming the product (it would not fit a machine integer)
RECURSIVE MulDivMod(_, _, _)
MulDivMod(v, m, d) ==
  IF m = 0 THEN <<0, 0>>
  ELSE LET h == MulDivMod(v, m \div 2, d)
           q2 == 2 * h[1]
           r2 == 2 * h[2] + (IF m % 2 = 1 THEN v % d ELSE 0)
           qv == IF m % 2 = 1 THEN v \div d ELSE 0
       IN  <<q2 + qv + (r2 \div d), r2 % d>>

\* round-half-to-even of v * m / d
RoundMulDiv(v, m, d) ==
  LET qr == MulDivMod(v, m, d)
      q == qr[1]
      r == qr[2]
  IN  IF 2 * r < d THEN q
      ELSE IF 2 * r > d THEN q + 1
      ELSE IF q % 2 = 0 THEN q ELSE q + 1

\* floor of v * m / d (= truncation, v, m >= 0)
FloorMulDiv(v, m, d) == MulDivMod(v, m, d)[1]

\* round(x, 1) of a value x held in hundredths
Round1(n) == 10 * RoundDiv(n, 10)

(* ------------------------- const.py (imported) ------------------------ *)
\* DOMAIN in const.py (a reserved word here)
DOMAIN_NAME == "weatherbit"
\* DOMAIN.capitalize()
DomainCapitalized == "Weatherbit"
ATTR_WEATHERBIT_UPDATED == "updated"
DEFAULT_ATTRIBUTION == "Data provided by Weatherbit.io"
DEVICE_TYPE_TEMPERATURE == "temperature"
DEVICE_TYPE_WIND == "wind"
DEVICE_TYPE_HUMIDITY == "humidity"
DEVICE_TYPE_RAIN == "rain"
DEVICE_TYPE_PRESSURE == "pressure"
DEVICE_TYPE_DISTANCE == "distance"
TYPE_SENSOR == "sensor"
TYPE_FORECAST == "forecast"
\* homeassistant.const.TEMP_CELSIUS
TEMP_CELSIUS == "°C"

\* ordered code-list -> category table; items() yields it in this order
CONDITION_CLASSES ==
  << <<"clear-night", {8000}>>,
     <<"cloudy", {803, 804}>>,
     <<"exceptional", {}>>,
     <<"fog", {700, 711, 721, 731, 741, 751}>>,
     <<"hail", {}>>,
     <<"lightning", {230, 231, 232, 233}>>,
     <<"lightning-rainy", {200, 201, 202}>>,
     <<"partlycloudy", {801, 802}>>,
     <<"pouring", {502, 522}>>,
     <<"rainy", {300, 301, 302, 500, 501, 511, 520, 521, 900}>>,
     <<"snowy", {600, 601, 602, 621, 622, 623}>>,
     <<"snowy-rainy", {610, 611, 612}>>,
     <<"sunny", {800}>>,
     <<"windy", {}>>,
     <<"windy-variant", {}>> >>

(* ---------------------------- Sensor Catalog -------------------------- *)
\* keys of SENSORS in dictionary (insertion) order
SensorKeys ==
  <<"temp", "wind_spd", "app_temp", "humidity", "pres", "clouds", "solar_rad",
    "wind_cdir", "wind_dir", "dewpt", "vis", "precip", "uv", "aqi">>

\* key -> <<display name, category, icon suffix>>  (python index 0, 1, 2)
SENSORS ==
  [k \in {SensorKeys[i] : i \in 1..Len(SensorKeys)} |->
    CASE k = "temp" -> <<"Temperature", DEVICE_TYPE_TEMPERATURE, "thermometer">>
      [] k = "wind_spd" -> <<"Wind Speed", DEVICE_TYPE_WIND, "weather-windy">>
      [] k = "app_temp" -> <<"Apparent Temperature", DEVICE_TYPE_TEMPERATURE, "thermometer">>
      [] k = "humidity" -> <<"Humidity", DEVICE_TYPE_HUMIDITY, "water-percent">>
      [] k = "pres" -> <<"Pressure", DEVICE_TYPE_PRESSURE, "gauge">>
      [] k = "clouds" -> <<"Cloud Coverage", "%", "cloud-outline">>
      [] k = "solar_rad" -> <<"Solar Radiation", "W/m2", "weather-sunny">>
      [] k = "wind_cdir" -> <<"Wind Direction", "", "compass-outline">>
      [] k = "wind_dir" -> <<"Wind Bearing", "°", "compass-outline">>
      [] k = "dewpt" -> <<"Dewpoint", DEVICE_TYPE_TEMPERATURE, "thermometer">>
      [] k = "vis" -> <<"Visibility", DEVICE_TYPE_DISTANCE, "eye-outline">>
      [] k = "precip" -> <<"Rain Today", DEVICE_TYPE_RAIN, "weather-rainy">>
      [] k = "uv" -> <<"UV Index", "UVI", "weather-sunny-alert">>
      [] k = "aqi" -> <<"Air Quality", "AQI", "hvac">>]

(* ------------------- snapshots delivered by refreshes ----------------- *)
\* weather codes a forecast day may carry; 999 is in no category
CodeCycle == <<800, 801, 999, 500, 803, 8000, 802, 610, 741>>

\* forecast entry of python index i in refresh generation g
ForecastDay(i, g) ==
  [weather_code |-> CodeCycle[((i + g) % Len(CodeCycle)) + 1],
   max_temp |-> Num(1875 + 125 * i + 50 * g),
   min_temp |-> Num(125 * i + 33 * g - 700),
   wind_spd |-> Num(300 + 111 * i + 7 * g),
   precip |-> Num(127 * i + 5 * g),
   valid_date |-> Str("2020-06-" \o ToString(10 + i + g)),
   wind_dir |-> Num(4500 * i + 100 * g)]

\* a forecast sequence of n entries (python indices 0 .. n-1)
Forecast(n, g) == [i \in 1..n |-> ForecastDay(i - 1, g)]

\* stop index of the slice fcst_coordinator.data[1:8]
SliceStop == 8

\* lengths of the forecast sequences refreshes deliver: empty, today only,
\* one forecast day, a short week, the provider's 8 entries, and longer ones
FcstLens == {0, 1, 2, 5} \cup (SliceStop..(SliceStop + MaxExtra))

FcstInputs == {Forecast(n, g) : n \in FcstLens, g \in 1..MaxGen}

\* current-conditions record of observation v
Current(v) ==
  [temp |-> Num(3050 - 900 * v),
   wind_spd |-> Num(667 + 333 * v),
   app_temp |-> Num(2875 - 950 * v),
   humidity |-> Num(4000 + 1100 * v),
   pres |-> Num(102325 - 1000 * v),
   clouds |-> Num(2500 * (v % 5)),
   solar_rad |-> Num(12345 * v),
   wind_cdir |-> Str(IF v % 2 = 1 THEN "NNE" ELSE "SW"),
   wind_dir |-> Num(2250 + 9000 * (v % 4)),
   dewpt |-> Num(1500 - 820 * v),
   vis |-> Num(400 + 600 * v),
   precip |-> Num(IF v = 1 THEN 2540 ELSE 1275 * (v - 1)),
   uv |-> Num(340 + 15 * v),
   aqi |-> Num(4200 + 100 * v),
   obs_time_local |-> Str("2020-06-11T0" \o ToString(v % 10) \o ":00")]

\* cur_coordinator.data: empty, or one current-conditions record
CurInputs == {<<>>} \cup {<<Current(v)>> : v \in 1..MaxObs}

\* entry.data of the config entry
EntryData == [id |-> "home"]

(* --------------------------- WeatherbitEntity -------------------------- *)
\* self._device_key as the base class derives it from the config entry
DeviceKey(entries) == entries.id

\* self._current: the record held by the current-conditions coordinator
Current_ == IF cur_data = <<>> THEN Raised("IndexError") ELSE cur_data[1]

\* fcst_coordinator.data[index] (python index)
FcstAt(index) ==
  IF index + 1 \in 1..Len(fcst_data) THEN fcst_data[index + 1] ELSE Raised("IndexError")

(* --------------------------- WeatherbitSensor -------------------------- *)
Unset == [tag |-> "unset", num |-> 0, str |-> ""]

\* faulty variant: next(...) without the None default
ResolveCondition_noDefault(code) ==
  LET hits == {j \in 1..Len(CONDITION_CLASSES) : code \in CONDITION_CLASSES[j][2]}
  IN  IF hits = {} THEN Raised("StopIteration")
      ELSE Str(CONDITION_CLASSES[CHOOSE j \in hits : \A h \in hits : j <= h][1])
\* next((k for k, v in CONDITION_CLASSES.items() if code in v), None)
ResolveCondition(code) ==
  LET hits == {j \in 1..Len(CONDITION_CLASSES) : code \in CONDITION_CLASSES[j][2]}
  IN  IF hits = {} THEN None
      ELSE Str(CONDITION_CLASSES[CHOOSE j \in hits : \A h \in hits : j <= h][1])

\* faulty variant: no special spelling for "partlycloudy"
WeatherIcon_plain(condition) == condition
\* self._weather_icon from self._condition
WeatherIcon(condition) ==
  IF condition = Str("partlycloudy") THEN Str("partly-cloudy") ELSE condition

\* WeatherbitSensor.__init__: the instance, or the exception it raises
WeatherbitSensor(entries, sensor, metric, sensor_type, index) ==
  LET base == [_device_key |-> DeviceKey(entries),
               _sensor |-> sensor,
               _sensor_type |-> sensor_type,
               _is_metric |-> metric,
               _index |-> index]
  IN  IF sensor_type = TYPE_SENSOR
      THEN base @@
           [_name |-> DomainCapitalized \o " " \o SENSORS[sensor][1],
            _unique_id |-> DeviceKey(entries) \o "_" \o sensor,
            _device_class |-> SENSORS[sensor][2],
            _condition |-> Unset,
            _weather_icon |-> Unset]
      ELSE LET day == FcstAt(index)
               cond == IF IsRaised(day) THEN day ELSE ResolveCondition(day.weather_code)
           IN  IF IsRaised(cond) THEN cond
               ELSE base @@
                    [_name |-> DomainCapitalized \o " Forecast Day " \o ToString(index),
                     _unique_id |-> DeviceKey(entries) \o "_forecast_day" \o ToString(index),
                     _device_class |-> "",
                     _condition |-> cond,
                     _weather_icon |-> WeatherIcon(cond)]

\* faulty variant: round() in place of int()
KmToMilesRounded(v) == 100 * RoundMulDiv(v, 621371, 100000000)
\* int(float(convert_distance(value, LENGTH_KILOMETERS, LENGTH_MILES))):
\* kilometres * 1000 * 0.000621371, truncated to whole miles
KmToMilesInt(v) == 100 * FloorMulDiv(v, 621371, 100000000)

\* WeatherbitSensor.name
name(self) == Str(self._name)

\* WeatherbitSensor.state
state(self) ==
  IF self._sensor_type = TYPE_SENSOR
  THEN IF IsRaised(Current_) THEN Current_
       ELSE LET value == Current_[self._sensor]
            IN  IF self._device_class = DEVICE_TYPE_WIND
                THEN IF self._is_metric
                     THEN Num(Round1(value.num))
                     ELSE Num(RoundMulDiv(value.num, 223693629, 100000000))
                ELSE IF self._device_class = DEVICE_TYPE_PRESSURE
                THEN IF self._is_metric
                     THEN value
                     ELSE Num(RoundMulDiv(value.num, 100000, 3386389))
                ELSE IF self._device_class = DEVICE_TYPE_RAIN
                THEN IF self._is_metric
                     THEN Num(Round1(value.num))
                     ELSE None
                ELSE IF self._device_class = DEVICE_TYPE_DISTANCE
                THEN IF self._is_metric
                     THEN value
                     ELSE Num(KmToMilesInt(value.num))
                ELSE IF self._device_class = "UVI"
                THEN Num(Round1(value.num))
                ELSE value
  ELSE self._condition

\* WeatherbitSensor.icon
icon(self) ==
  IF self._sensor_type = TYPE_SENSOR
  THEN Str("mdi:" \o SENSORS[self._sensor][3])
  ELSE Str("mdi:weather-" \o Format(self._weather_icon))

\* the unit chain of unit_of_measurement for an instantaneous sensor
UnitFor(device_class, metric) ==
  IF device_class = DEVICE_TYPE_TEMPERATURE THEN Str(TEMP_CELSIUS)
  ELSE IF device_class = DEVICE_TYPE_WIND THEN Str(IF metric THEN "m/s" ELSE "mi/h")
  ELSE IF device_class = DEVICE_TYPE_PRESSURE THEN Str(IF metric THEN "hPa" ELSE "inHg")
  ELSE IF device_class = DEVICE_TYPE_HUMIDITY THEN Str("%")
  ELSE IF device_class = DEVICE_TYPE_RAIN THEN Str(IF metric THEN "mm" ELSE "in")
  ELSE IF device_class = DEVICE_TYPE_DISTANCE THEN Str(IF metric THEN "km" ELSE "mi")
  ELSE Str(device_class)

\* faulty variant: the rain unit follows the live value
unit_of_measurement_live(self) ==
  IF self._sensor_type = TYPE_SENSOR
  THEN IF /\ self._device_class = DEVICE_TYPE_RAIN
          /\ ~self._is_metric
          /\ ~IsRaised(Current_)
          /\ Current_.precip.num < 2540
       THEN Str("mm")
       ELSE UnitFor(self._device_class, self._is_metric)
  ELSE None
\* WeatherbitSensor.unit_of_measurement (a forecast-day sensor falls off the end)
unit_of_measurement(self) ==
  IF self._sensor_type = TYPE_SENSOR
  THEN UnitFor(self._device_class, self._is_metric)
  ELSE None

\* faulty variant: a forecast-day bundle dated from its forecast entry
UpdatedAttr_fromForecast(self) ==
  IF self._sensor_type = TYPE_SENSOR THEN Current_.obs_time_local
  ELSE FcstAt(self._index).valid_date
\* the "last updated" entry of an attribute bundle
UpdatedAttr(self) == Current_.obs_time_local

\* WeatherbitSensor.device_state_attributes
device_state_attributes(self) ==
  IF self._sensor_type = TYPE_SENSOR
  THEN IF IsRaised(Current_) THEN Current_
       ELSE [attribution |-> Str(DEFAULT_ATTRIBUTION),
             updated |-> UpdatedAttr(self)]
  ELSE LET day == FcstAt(self._index)
       IN  IF IsRaised(day) THEN day
           ELSE IF IsRaised(Current_) THEN Current_
           ELSE LET temp == IF self._is_metric THEN day.max_temp
                            ELSE Num(10 * RoundDiv(18 * day.max_temp.num + 32000, 100))
                    tempmin == IF self._is_metric THEN day.min_temp
                               ELSE Num(10 * RoundDiv(18 * day.min_temp.num + 32000, 100))
                    wspeed == IF self._is_metric
                              THEN Num(10 * RoundDiv(36 * day.wind_spd.num, 100))
                              ELSE Num(10 * RoundMulDiv(day.wind_spd.num, 223693629, 1000000000))
                    precip == IF self._is_metric
                              THEN Num(Round1(day.precip.num))
                              ELSE Num(RoundDiv(10 * day.precip.num, 254))
                IN  [attribution |-> Str(DEFAULT_ATTRIBUTION),
                     datetime |-> day.valid_date,
                     temperature |-> temp,
                     templow |-> tempmin,
                     precipitation |-> precip,
                     wind_speed |-> wspeed,
                     wind_bearing |-> day.wind_dir,
                     updated |-> UpdatedAttr(self)]

(* ------------------------------ host calls ---------------------------- *)
\* The read path is synchronous: `last` is the value a getter is handing to
\* the host; nothing else runs until the host has taken it.
NoRead == [op |-> "none", idx |-> 0, val |-> None]
Idle == last = NoRead

(* -------------------------------- setup -------------------------------- *)
Min(a, b) == IF a < b THEN a ELSE b

\* faulty variant: returns early only when both coordinators hold no data
NoData_both == fcst_data = <<>> /\ cur_data = <<>>
\* the two early returns: a coordinator holds no data
NoData == fcst_data = <<>> \/ cur_data = <<>>

\* faulty variant: the slice starts at entry 0
ForecastSlice_fromStart == SubSeq(fcst_data, 1, Min(Len(fcst_data), SliceStop))
\* fcst_coordinator.data[1:8]: the forecast entries the loop visits
ForecastSlice == SubSeq(fcst_data, 2, Min(Len(fcst_data), SliceStop))

\* the list `sensors` async_setup_entry builds, in order (cnt starts at 1)
BuildSensors ==
  [i \in 1..(Len(SensorKeys) + Len(ForecastSlice)) |->
    IF i <= Len(SensorKeys)
    THEN WeatherbitSensor(EntryData, SensorKeys[i], is_metric, TYPE_SENSOR, 0)
    ELSE WeatherbitSensor(EntryData, ForecastSlice[i - Len(SensorKeys)], is_metric,
                          TYPE_FORECAST, i - Len(SensorKeys))]

\* async_setup_entry
AsyncSetupEntry ==
  /\ Idle
  /\ setup_result = "pending"
  /\ IF NoData
     THEN /\ setup_result' = "None"
          /\ UNCHANGED <<entities, add_calls>>
     ELSE IF \E i \in DOMAIN BuildSensors : IsRaised(BuildSensors[i])
     THEN /\ setup_result' = "raised"
          /\ UNCHANGED <<entities, add_calls>>
     ELSE /\ entities' = entities \o BuildSensors
          /\ add_calls' = add_calls + 1
          /\ setup_result' = "True"
  /\ UNCHANGED <<fcst_data, cur_data, is_metric, last>>

(* ---------------------------- external refresh ------------------------- *)
RefreshForecast ==
  /\ Idle
  /\ \E f \in FcstInputs : f # fcst_data /\ fcst_data' = f
  /\ UNCHANGED <<cur_data, is_metric, entities, add_calls, setup_result, last>>

RefreshCurrent ==
  /\ Idle
  /\ \E c \in CurInputs : c # cur_data /\ cur_data' = c
  /\ UNCHANGED <<fcst_data, is_metric, entities, add_calls, setup_result, last>>

(* ------------------------------ host reads ----------------------------- *)
ReadName(i) ==
  /\ Idle
  /\ last' = [op |-> "name", idx |-> i, val |-> name(entities[i])]
  /\ UNCHANGED <<fcst_data, cur_data, is_metric, entities, add_calls, setup_result>>

\* faulty variant: the state read re-resolves and stores the condition
ReadState_refreshing(i) ==
  /\ Idle
  /\ last' = [op |-> "state", idx |-> i, val |-> state(entities[i])]
  /\ entities' =
       [entities EXCEPT ![i] =
         LET self == entities[i]
         IN  IF self._sensor_type = TYPE_FORECAST /\ ~IsRaised(FcstAt(self._index))
             THEN [self EXCEPT
                     !._condition = ResolveCondition(FcstAt(self._index).weather_code)]
             ELSE self]
  /\ UNCHANGED <<fcst_data, cur_data, is_metric, add_calls, setup_result>>
ReadState(i) ==
  /\ Idle
  /\ last' = [op |-> "state", idx |-> i, val |-> state(entities[i])]
  /\ UNCHANGED <<fcst_data, cur_data, is_metric, entities, add_calls, setup_result>>

ReadIcon(i) ==
  /\ Idle
  /\ last' = [op |-> "icon", idx |-> i, val |-> icon(entities[i])]
  /\ UNCHANGED <<fcst_data, cur_data, is_metric, entities, add_calls, setup_result>>

ReadUnit(i) ==
  /\ Idle
  /\ last' = [op |-> "unit_of_measurement", idx |-> i,
              val |-> unit_of_measurement(entities[i])]
  /\ UNCHANGED <<fcst_data, cur_data, is_metric, entities, add_calls, setup_result>>

ReadAttributes(i) ==
  /\ Idle
  /\ last' = [op |-> "device_state_attributes", idx |-> i,
              val |-> device_state_attributes(entities[i])]
  /\ UNCHANGED <<fcst_data, cur_data, is_metric, entities, add_calls, setup_result>>

\* the getter returns: the host takes the value
HostReceives ==
  /\ ~Idle
  /\ last' = NoRead
  /\ UNCHANGED <<fcst_data, cur_data, is_metric, entities, add_calls, setup_result>>

(* ----------------------------- specification --------------------------- *)
Init ==
  /\ fcst_data \in FcstInputs
  /\ cur_data \in CurInputs
  /\ is_metric \in BOOLEAN
  /\ entities = <<>>
  /\ add_calls = 0
  /\ setup_result = "pending"
  /\ last = NoRead

Next ==
  \/ AsyncSetupEntry
  \/ RefreshForecast
  \/ RefreshCurrent
  \/ \E i \in DOMAIN entities : ReadName(i)
  \/ \E i \in DOMAIN entities : ReadState(i)
  \/ \E i \in DOMAIN entities : ReadIcon(i)
  \/ \E i \in DOMAIN entities : ReadUnit(i)
  \/ \E i \in DOMAIN entities : ReadAttributes(i)
  \/ HostReceives

Spec == Init /\ [][Next]_vars

(* ============================== properties ============================ *)
SensorIdx == {i \in DOMAIN entities : entities[i]._sensor_type = TYPE_SENSOR}
ForecastIdx == {i \in DOMAIN entities : entities[i]._sensor_type = TYPE_FORECAST}
\* the step in which async_setup_entry runs
SetupStep == setup_result = "pending" /\ setup_result' # "pending"
\* the last read returned `v` from getter `op` of entity i
Returned(op, i, v) == last.op = op /\ last.idx = i /\ last.val = v

\* C1: the instantaneous rain sensor surfaces the converted value in both
\* unit systems: metric rounds the millimetres to 1 decimal (25.4 stays
\* 25.4), imperial gives value / 25.4 rounded to 2 decimals (25.4 mm is
\* 1.0 in), and the imperial state is always a number, never absent.
C1_RainStateSurfaced ==
  \A i \in SensorIdx :
    (entities[i]._sensor = "precip" /\ cur_data # <<>>) =>
      LET mm == cur_data[1].precip.num
          st == state(entities[i])
      IN  IF entities[i]._is_metric
          THEN st = Num(Round1(mm)) /\ (mm = 2540 => st = Num(2540))
          ELSE /\ st.tag = "num"
               /\ st = Num(RoundDiv(10 * mm, 254))
               /\ (mm = 2540 => st = Num(100))

\* C2: when the forecast snapshot or the current-conditions snapshot is
\* empty (either alone suffices), async_setup_entry returns without error,
\* registers no sensor and never calls async_add_entities.
C2_NoDataNoSensors ==
  [][(SetupStep /\ (fcst_data = <<>> \/ cur_data = <<>>)) =>
       (setup_result' = "None" /\ entities' = <<>> /\ add_calls' = 0)]_vars

C2_Witness ==
  /\ setup_result = "None"
  /\ fcst_data # <<>>
  /\ cur_data = <<>>
  /\ entities = <<>>
  /\ add_calls = 0

\* the conversion table of the state read, by category and unit system
SpecConversion(device_class, metric, value) ==
  CASE device_class = DEVICE_TYPE_WIND ->
         IF metric THEN Num(Round1(value.num))
         ELSE Num(RoundMulDiv(value.num, 223693629, 100000000))
    [] device_class = DEVICE_TYPE_PRESSURE ->
         IF metric THEN value ELSE Num(RoundMulDiv(value.num, 100000, 3386389))
    [] device_class = DEVICE_TYPE_RAIN ->
         IF metric THEN Num(Round1(value.num)) ELSE Num(RoundDiv(10 * value.num, 254))
    [] device_class = DEVICE_TYPE_DISTANCE ->
         IF metric THEN value ELSE Num(100 * FloorMulDiv(value.num, 621371, 100000000))
    [] device_class = "UVI" -> Num(Round1(value.num))
    [] OTHER -> value

\* C3: every getter returns a value recomputed from the live snapshots: the
\* state of a forecast-day sensor is the category the forecast entry now at
\* its day index resolves to, and the state of an instantaneous sensor is
\* the conversion of the field now in the current-conditions snapshot.
C3_StateIsLive ==
  /\ \A i \in ForecastIdx :
       ~IsRaised(FcstAt(entities[i]._index)) =>
         state(entities[i]) = ResolveCondition(FcstAt(entities[i]._index).weather_code)
  /\ \A i \in SensorIdx :
       cur_data # <<>> =>
         state(entities[i]) =
           SpecConversion(entities[i]._device_class, entities[i]._is_metric,
                          cur_data[1][entities[i]._sensor])

\* the unit of each category in each unit system
SpecUnit(device_class, metric) ==
  CASE device_class = "wind" -> IF metric THEN "m/s" ELSE "mi/h"
    [] device_class = "pressure" -> IF metric THEN "hPa" ELSE "inHg"
    [] device_class = "rain" -> IF metric THEN "mm" ELSE "in"
    [] device_class = "distance" -> IF metric THEN "km" ELSE "mi"
    [] device_class = "humidity" -> "%"
    [] device_class = "temperature" -> "°C"
    [] OTHER -> device_class

\* C4: unit_of_measurement of an instantaneous sensor depends only on its
\* category and the unit-system flag: it is the category's unit in that
\* system, any two instances of one category and flag agree whatever the
\* two snapshots they are read under, and no refresh changes it.
C4_UnitOnlyCategoryAndFlag ==
  [][/\ \A j \in SensorIdx :
          unit_of_measurement(entities[j]) =
            Str(SpecUnit(entities[j]._device_class, entities[j]._is_metric))
     /\ \A i \in SensorIdx' : \A j \in SensorIdx :
          (/\ entities'[i]._device_class = entities[j]._device_class
           /\ entities'[i]._is_metric = entities[j]._is_metric)
          => unit_of_measurement(entities[i])' = unit_of_measurement(entities[j])]_vars

C4_Witness ==
  \E i \in SensorIdx :
    /\ entities[i]._sensor = "precip"
    /\ ~entities[i]._is_metric
    /\ cur_data # <<>>
    /\ cur_data[1].precip.num < 2540
    /\ Returned("unit_of_measurement", i, Str("in"))

\* C5: a forecast-day sensor whose weather code matched a category at
\* construction has that category as its state; its icon is
\* "mdi:weather-partly-cloudy" for "partlycloudy" and
\* "mdi:" + "weather-" + category for every other category.
C5_IconAndState ==
  [][\A i \in ForecastIdx' :
       LET e == entities'[i]
       IN  /\ (i \notin DOMAIN entities) =>
                e._condition = ResolveCondition(FcstAt(e._index).weather_code)
           /\ (e._condition # None) =>
                /\ state(entities[i])' = e._condition
                /\ icon(entities[i])' =
                     IF e._condition = Str("partlycloudy")
                     THEN Str("mdi:weather-partly-cloudy")
                     ELSE Str("mdi:" \o "weather-" \o e._condition.str)]_vars

C5_Witness ==
  \E i \in ForecastIdx : \E j \in ForecastIdx :
    /\ entities[i]._condition = Str("partlycloudy")
    /\ Returned("icon", i, Str("mdi:weather-partly-cloudy"))
    /\ entities[j]._condition = Str("rainy")
    /\ icon(entities[j]) = Str("mdi:weather-rainy")

\* C6: the attribute bundle of a forecast-day sensor (day index 1..7) has
\* the static attribution string and, as last-updated, obs_time_local of the
\* current-conditions snapshot of the moment, never a forecast entry's
\* field; its valid date, temperatures, wind and precipitation come from
\* the forecast entry at the sensor's own day index.
C6_ForecastBundleSources ==
  \A i \in ForecastIdx :
    LET e == entities[i]
        a == device_state_attributes(e)
    IN  /\ e._index \in 1..7
        /\ ~IsRaised(a) =>
             LET day == fcst_data[e._index + 1]
             IN  /\ a.attribution = Str(DEFAULT_ATTRIBUTION)
                 /\ a.updated = cur_data[1].obs_time_local
                 /\ a.datetime = day.valid_date
                 /\ a.wind_bearing = day.wind_dir
                 /\ a.temperature =
                      IF e._is_metric THEN day.max_temp
                      ELSE Num(10 * RoundDiv(18 * day.max_temp.num + 32000, 100))
                 /\ a.templow =
                      IF e._is_metric THEN day.min_temp
                      ELSE Num(10 * RoundDiv(18 * day.min_temp.num + 32000, 100))
                 /\ a.wind_speed =
                      IF e._is_metric THEN Num(10 * RoundDiv(36 * day.wind_spd.num, 100))
                      ELSE Num(10 * RoundMulDiv(day.wind_spd.num, 223693629, 1000000000))
                 /\ a.precipitation =
                      IF e._is_metric THEN Num(Round1(day.precip.num))
                      ELSE Num(RoundDiv(10 * day.precip.num, 254))

\* a day-7 bundle read after the forecast was refreshed since construction
C6_Witness ==
  \E i \in ForecastIdx :
    /\ entities[i]._index = 7
    /\ ~entities[i]._is_metric
    /\ last.op = "device_state_attributes"
    /\ last.idx = i
    /\ ~IsRaised(last.val)
    /\ last.val.updated = cur_data[1].obs_time_local
    /\ last.val.datetime = fcst_data[8].valid_date
    /\ entities[i]._condition # ResolveCondition(fcst_data[8].weather_code)

\* C7: a forecast day whose weather code is in no entry of the category
\* table still gets its sensor: construction does not fail, the resolved
\* condition is absent and the state read returns None; a code that matches
\* resolves to the label of the first matching entry of the table.
C7_UnmatchedCodeIsAbsent ==
  [][/\ (SetupStep /\ fcst_data # <<>> /\ cur_data # <<>>) =>
          /\ setup_result' = "True"
          /\ Cardinality(ForecastIdx') = Min(Len(fcst_data), 8) - 1
     /\ \A i \in ForecastIdx' :
          LET e == entities'[i]
              code == FcstAt(e._index).weather_code
              hits == {j \in 1..Len(CONDITION_CLASSES) : code \in CONDITION_CLASSES[j][2]}
          IN  /\ (i \notin DOMAIN entities) =>
                   IF hits = {} THEN e._condition = None
                   ELSE \E j \in hits :
                          /\ \A h \in hits : j <= h
                          /\ e._condition = Str(CONDITION_CLASSES[j][1])
              /\ (e._condition = None) => state(entities[i])' = None]_vars

C7_Witness ==
  \E i \in ForecastIdx :
    /\ setup_result = "True"
    /\ entities[i]._condition = None
    /\ Returned("state", i, None)

\* C8: the instantaneous distance sensor (key vis) returns the snapshot
\* value unchanged in the metric system (10 km stays 10) and, in the
\* imperial system, the kilometres converted to miles and truncated, not
\* rounded, to an integer (10 km gives 6 mi), for every non-negative value.
C8_DistanceTruncated ==
  \A i \in SensorIdx :
    (entities[i]._sensor = "vis" /\ cur_data # <<>> /\ cur_data[1].vis.num >= 0) =>
      LET km == cur_data[1].vis.num
          st == state(entities[i])
      IN  IF entities[i]._is_metric
          THEN st = Num(km) /\ (km = 1000 => st = Num(1000))
          ELSE /\ st.tag = "num"
               /\ st.num % 100 = 0
               /\ (st.num \div 100) * 100000000 <= km * 621371
               /\ km * 621371 < ((st.num \div 100) + 1) * 100000000
               /\ (km = 1000 => st = Num(600))

\* 16 km is 9.94 mi: truncation gives 9 where rounding would give 10
C8_Witness ==
  \E i \in SensorIdx :
    /\ entities[i]._sensor = "vis"
    /\ ~entities[i]._is_metric
    /\ cur_data # <<>>
    /\ cur_data[1].vis.num = 1600
    /\ Returned("state", i, Num(900))

\* C9: with both snapshots populated async_setup_entry registers, in one
\* call, one instantaneous sensor per catalog key (unique id
\* <device-key>_<sensor-key>) and one forecast-day sensor per forecast
\* entry at positions 1..7, numbered from 1 so that day index N (unique id
\* <device-key>_forecast_day<N>) reads entry N; entry 0 gets none, every
\* index exists in the sequence at construction, and all unique ids differ.
C9_SetupRegistersCatalogAndDays ==
  [][(SetupStep /\ fcst_data # <<>> /\ cur_data # <<>>) =>
       LET n == Min(Len(fcst_data), 8) - 1
           nk == Cardinality(DOMAIN SENSORS)
       IN  /\ setup_result' = "True"
           /\ add_calls' = add_calls + 1
           /\ Len(entities') = nk + n
           /\ \A key \in DOMAIN SENSORS :
                Cardinality({k \in 1..nk :
                               /\ entities'[k]._sensor_type = TYPE_SENSOR
                               /\ entities'[k]._sensor = key
                               /\ entities'[k]._unique_id = EntryData.id \o "_" \o key}) = 1
           /\ \A N \in 1..n :
                LET e == entities'[nk + N]
                IN  /\ e._sensor_type = TYPE_FORECAST
                    /\ e._index = N
                    /\ e._unique_id = EntryData.id \o "_forecast_day" \o ToString(N)
                    /\ N + 1 <= Len(fcst_data)
                    /\ device_state_attributes(e).datetime = fcst_data[N + 1].valid_date
                    /\ e._condition = ResolveCondition(fcst_data[N + 1].weather_code)
           /\ \A a \in DOMAIN entities' : \A b \in DOMAIN entities' :
                a # b => entities'[a]._unique_id # entities'[b]._unique_id]_vars

\* a sequence of 8 gives 14 + 7 sensors, a sequence of 1 gives 14
C9_Witness ==
  /\ setup_result = "True"
  /\ add_calls = 1
  /\ Len(fcst_data) = 8
  /\ Len(entities) = 21
  /\ entities[21]._unique_id = "home_forecast_day7"
  /\ entities[1]._unique_id = "home_temp"

\* C10: no read and no refresh changes a sensor instance: its sensor key,
\* sensor type, unit-system flag, day index, display name, unique id,
\* category, resolved condition and weather icon stay as constructed.
C10_InstanceNeverMutated ==
  [][\A i \in DOMAIN entities :
       i \in DOMAIN entities' /\ entities'[i] = entities[i]]_vars

\* a state read of a forecast-day sensor whose day has been refreshed to a
\* code of another category since construction
C10_Witness ==
  \E i \in ForecastIdx :
    /\ ~IsRaised(FcstAt(entities[i]._index))
    /\ entities[i]._condition # ResolveCondition(FcstAt(entities[i]._index).weather_code)
    /\ Returned("state", i, entities[i]._condition)

====
